---- MODULE Spec2Model ----
(***************************************************************************)
(* A model of asggo/store: a wrapper around the bolt key/value engine.     *)
(* The database is a map from bucket name to bucket; a bucket is a map     *)
(* from key to value, traversed by a cursor in ascending byte order.       *)
(* Every Store method runs inside one engine transaction, so every method  *)
(* is one action of the model.                                             *)
(***************************************************************************)
EXTENDS Integers, Sequences, FiniteSets, TLC

VARIABLES
    db,       \* the committed database: [bucket name -> [key -> value bytes]]
    pre,      \* the committed database before the last call
    last,     \* the last call: its name, arguments and everything it returned
    pc,       \* the caller: "idle" before a call, "returned" after it
    bt,       \* the batch struct handed to ReadBatch (store.go variant)
    chain,    \* bookkeeping of one ReadBatch resume chain
    ns,       \* the frame of a NewStore call: loop counter, errors, result
    fs,       \* the database file as bolt.Open finds it
    tx,       \* a traversal running in its read transaction
    upd,      \* an update of one key in progress, and what a reader saw of it
    bk,       \* a Backup call in progress and its destination file
    kv        \* the kv command-line program: where main is, what it called

vars == <<db, pre, last, pc, bt, chain, ns, fs, tx, upd, bk, kv>>

----------------------------------------------------------------------------
(* Bounds of the model *)

\* longest key (and prefix / resume key) a caller passes
MaxKeyLen == 2
\* most entries the database holds at once when both buckets are in use
MaxEntries == 3
\* most entries of the one bucket the traversals scan
MaxScanEntries == 4
\* most entries of the bucket a ReadBatch resume chain pages through
MaxChainEntries == 4
\* greatest count a caller asks ReadBatch for
MaxCount == 2

\* the byte values keys, values and names are made of
ByteVals == {1, 2}

StrsUpTo(n) == UNION {[1..m -> ByteVals] : m \in 0..n}

\* keys callers pass, the empty key included
KeyInputs == StrsUpTo(MaxKeyLen)

\* the few keys used while both buckets are in use
ShortKeys == {<<>>, <<1>>, <<1, 2>>, <<2>>}

\* bucket names callers pass, the empty name included
BucketInputs == {<<>>, <<1>>, <<2>>}

----------------------------------------------------------------------------
(* Go values *)

\* a []byte is nil or a (possibly empty) byte sequence
NilBytes == [isnil |-> TRUE, bytes |-> <<>>]
Bytes(s) == [isnil |-> FALSE, bytes |-> s]

\* values callers pass: nil, the empty slice, a non-empty slice
ValueInputs == {NilBytes, Bytes(<<>>), Bytes(<<1>>)}

\* the errors the store returns
NoErr == "nil"
ErrBucketNotExist == "bucket does not exist"
ErrKeyNotExist == "key does not exit"
ErrWriteFailed == "could not write to key"
ErrDeleteFailed == "could not delete key"
ErrBucketNotCreated == "bucket not created"
ErrBucketDeleteFailed == "could not delete bucket"

\* the empty database and the empty bucket
EmptyMap == [x \in {} |-> <<>>]

----------------------------------------------------------------------------
(* The engine: byte order, buckets, cursors *)

\* bytes.Compare(a, b) < 0: lexicographic order on raw bytes
LexLess(a, b) ==
    \E i \in 1..Len(b) :
        /\ \A j \in 1..(i - 1) : j <= Len(a) /\ a[j] = b[j]
        /\ (i > Len(a) \/ a[i] < b[i])

\* bytes.HasPrefix(k, pre)
HasPrefix(k, p) == Len(p) <= Len(k) /\ SubSeq(k, 1, Len(p)) = p

\* the number of keys of S that sort before k
Rank(S, k) == Cardinality({o \in S : LexLess(o, k)})

\* the keys of a set in the order a cursor yields them: ascending byte order
SortedSeq(S) ==
    [i \in 1..Cardinality(S) |-> CHOOSE k \in S : Rank(S, k) = i - 1]

\* tx.Bucket(name): the bucket, or nil when there is none
HasBucket(d, name) == name \in DOMAIN d

\* b.Cursor(): the entries of bucket b as the cursor walks them
CursorKeys(b) == SortedSeq(DOMAIN b)

\* c.First(): position of the first entry (Len+1 stands for the nil key)
CursorFirst(ks) == 1

\* mutant of CursorSeek: the cursor starts at the first entry whatever the key
CursorSeekFirst(ks, k) == 1

\* mutant of CursorSeek: the cursor finds only the key itself (the first
\* entry for the empty key) and is at the end when the key is not stored
CursorSeekExact(ks, k) ==
    IF k = <<>> THEN 1
    ELSE IF \E i \in 1..Len(ks) : ks[i] = k
    THEN CHOOSE i \in 1..Len(ks) : ks[i] = k
    ELSE Len(ks) + 1

\* mutant of CursorSeek: the cursor lands after the key, on the first entry
\* whose key is > k
CursorSeekAfter(ks, k) ==
    IF \E i \in 1..Len(ks) : LexLess(k, ks[i])
    THEN CHOOSE i \in 1..Len(ks) :
            /\ LexLess(k, ks[i])
            /\ \A j \in 1..(i - 1) : ~LexLess(k, ks[j])
    ELSE Len(ks) + 1

\* c.Seek(k): position of the first entry whose key is >= k
CursorSeek(ks, k) ==
    IF \E i \in 1..Len(ks) : ~LexLess(ks[i], k)
    THEN CHOOSE i \in 1..Len(ks) :
            /\ ~LexLess(ks[i], k)
            /\ \A j \in 1..(i - 1) : LexLess(ks[j], k)
    ELSE Len(ks) + 1

\* c.Next()
CursorNext(ks, i) == i + 1

\* k != nil at cursor position i
CursorValid(ks, i) == i <= Len(ks)

\* mutant of BucketGet: an empty stored value comes back as nil
BucketGetEmptyAsNil(b, key) ==
    IF key \in DOMAIN b /\ b[key] # <<>> THEN Bytes(b[key]) ELSE NilBytes

\* b.Get(key): nil when the key is absent, else the stored bytes (an empty
\* value comes back as an empty, non-nil slice)
BucketGet(b, key) ==
    IF key \in DOMAIN b THEN Bytes(b[key]) ELSE NilBytes

\* mutant of BucketPut: a value put on an existing key is appended to the old
BucketPutAppend(b, key, value) ==
    IF key = <<>>
    THEN [err |-> TRUE, b |-> b]
    ELSE [err |-> FALSE,
          b |-> [k \in (DOMAIN b) \cup {key} |->
                    IF k # key THEN b[k]
                    ELSE IF key \in DOMAIN b THEN b[key] \o value.bytes
                    ELSE value.bytes]]

\* b.Put(key, value): the engine refuses the empty key; a nil value is stored
\* as the empty value
BucketPut(b, key, value) ==
    IF key = <<>>
    THEN [err |-> TRUE, b |-> b]
    ELSE [err |-> FALSE,
          b |-> [k \in (DOMAIN b) \cup {key} |->
                    IF k = key THEN value.bytes ELSE b[k]]]

\* mutant of BucketDelete: every key that begins with the key is removed
BucketDeletePrefix(b, key) ==
    [err |-> FALSE, b |-> [k \in {j \in DOMAIN b : ~HasPrefix(j, key)} |-> b[k]]]

\* mutant of BucketDelete: removing an absent key is an error
BucketDeleteStrict(b, key) ==
    [err |-> key \notin DOMAIN b, b |-> [k \in (DOMAIN b) \ {key} |-> b[k]]]

\* b.Delete(key): removing an absent key is not an error
BucketDelete(b, key) ==
    [err |-> FALSE, b |-> [k \in (DOMAIN b) \ {key} |-> b[k]]]

\* mutant of TxCreateBucketIfNotExists: tx.CreateBucket, which fails when the
\* bucket is already there
TxCreateBucket(d, name) ==
    IF name = <<>> \/ name \in DOMAIN d
    THEN [err |-> TRUE, db |-> d]
    ELSE [err |-> FALSE,
          db |-> [n \in (DOMAIN d) \cup {name} |->
                    IF n = name THEN EmptyMap ELSE d[n]]]

\* tx.CreateBucketIfNotExists(name): the engine refuses the empty name
TxCreateBucketIfNotExists(d, name) ==
    IF name = <<>>
    THEN [err |-> TRUE, db |-> d]
    ELSE IF name \in DOMAIN d
    THEN [err |-> FALSE, db |-> d]
    ELSE [err |-> FALSE,
          db |-> [n \in (DOMAIN d) \cup {name} |->
                    IF n = name THEN EmptyMap ELSE d[n]]]

\* mutant of TxDeleteBucket: a missing bucket is not an error
TxDeleteBucketLenient(d, name) ==
    [err |-> FALSE, db |-> [n \in (DOMAIN d) \ {name} |-> d[n]]]

\* tx.DeleteBucket(name): fails when there is no such bucket
TxDeleteBucket(d, name) ==
    IF name \notin DOMAIN d
    THEN [err |-> TRUE, db |-> d]
    ELSE [err |-> FALSE, db |-> [n \in (DOMAIN d) \ {name} |-> d[n]]]

\* replace one bucket of the database
WithBucket(d, name, b) == [n \in DOMAIN d |-> IF n = name THEN b ELSE d[n]]

\* db.Update / db.Batch: commit when the function returns nil, else roll back
Commit(d, err, newdb) == IF err = NoErr THEN newdb ELSE d

RECURSIVE SumCard(_, _)
SumCard(d, names) ==
    IF names = {} THEN 0
    ELSE LET n == CHOOSE x \in names : TRUE
         IN Cardinality(DOMAIN d[n]) + SumCard(d, names \ {n})

\* number of entries in the whole database
TotalEntries(d) == SumCard(d, DOMAIN d)

----------------------------------------------------------------------------
(* The Store methods, each as the result of its one transaction *)

\* CreateBucket: db.Update around tx.CreateBucketIfNotExists
StoreCreateBucket(d, bucket) ==
    LET r == TxCreateBucketIfNotExists(d, bucket)
        err == IF r.err THEN ErrBucketNotCreated ELSE NoErr
    IN [err |-> err, db |-> Commit(d, err, r.db)]

\* mutant of StoreDeleteBucket: the bucket is reported deleted but is kept
StoreDeleteBucketKeep(d, bucket) ==
    LET r == TxDeleteBucket(d, bucket)
    IN [err |-> IF r.err THEN ErrBucketDeleteFailed ELSE NoErr, db |-> d]

\* DeleteBucket: db.Update around tx.DeleteBucket
StoreDeleteBucket(d, bucket) ==
    LET r == TxDeleteBucket(d, bucket)
        err == IF r.err THEN ErrBucketDeleteFailed ELSE NoErr
    IN [err |-> err, db |-> Commit(d, err, r.db)]

\* mutant of StoreWrite: the bucket is created in a transaction of its own
\* before the put, so a failing put leaves the new bucket behind
StoreWriteTwoTx(d, bucket, key, value) ==
    LET c == StoreCreateBucket(d, bucket)
    IN IF c.err # NoErr
       THEN [err |-> ErrBucketNotExist, db |-> d]
       ELSE LET r == BucketPut(c.db[bucket], key, value)
                err == IF r.err THEN ErrWriteFailed ELSE NoErr
            IN [err |-> err,
                db |-> Commit(c.db, err, WithBucket(c.db, bucket, r.b))]

\* mutant of StoreWrite: a missing bucket is created by the write
StoreWriteAutoCreate(d, bucket, key, value) ==
    LET c == TxCreateBucketIfNotExists(d, bucket)
    IN IF c.err
       THEN [err |-> ErrBucketNotExist, db |-> d]
       ELSE LET r == BucketPut(c.db[bucket], key, value)
                err == IF r.err THEN ErrWriteFailed ELSE NoErr
            IN [err |-> err, db |-> Commit(d, err, WithBucket(c.db, bucket, r.b))]

\* Write: db.Batch; the bucket must exist, then b.Put
StoreWrite(d, bucket, key, value) ==
    IF ~HasBucket(d, bucket)
    THEN [err |-> ErrBucketNotExist, db |-> d]
    ELSE LET r == BucketPut(d[bucket], key, value)
             err == IF r.err THEN ErrWriteFailed ELSE NoErr
         IN [err |-> err, db |-> Commit(d, err, WithBucket(d, bucket, r.b))]

\* Read: db.View; the bucket must exist, then b.Get; a nil value is an error
StoreRead(d, bucket, key) ==
    IF ~HasBucket(d, bucket)
    THEN [err |-> ErrBucketNotExist, val |-> NilBytes]
    ELSE LET val == BucketGet(d[bucket], key)
         IN IF val.isnil
            THEN [err |-> ErrKeyNotExist, val |-> val]
            ELSE [err |-> NoErr, val |-> val]

\* mutant of StoreDelete: deleting from a missing bucket is a silent no-op
StoreDeleteNoCheck(d, bucket, key) ==
    IF ~HasBucket(d, bucket)
    THEN [err |-> NoErr, db |-> d]
    ELSE [err |-> NoErr,
          db |-> WithBucket(d, bucket, BucketDelete(d[bucket], key).b)]

\* Delete: db.Update; the bucket must exist, then b.Delete
StoreDelete(d, bucket, key) ==
    IF ~HasBucket(d, bucket)
    THEN [err |-> ErrBucketNotExist, db |-> d]
    ELSE LET r == BucketDelete(d[bucket], key)
             err == IF r.err THEN ErrDeleteFailed ELSE NoErr
         IN [err |-> err, db |-> Commit(d, err, WithBucket(d, bucket, r.b))]

\* Create of the older API: db.Update; the bucket must exist, then b.Put,
\* whose error is returned as it is
StoreCreate(d, bucket, key, value) ==
    IF ~HasBucket(d, bucket)
    THEN [err |-> ErrBucketNotExist, db |-> d]
    ELSE LET r == BucketPut(d[bucket], key, value)
             err == IF r.err THEN ErrWriteFailed ELSE NoErr
         IN [err |-> err, db |-> Commit(d, err, WithBucket(d, bucket, r.b))]

\* Read of the older API: one result, the error of the transaction is dropped
StoreReadOld(d, bucket, key) ==
    IF ~HasBucket(d, bucket)
    THEN [err |-> NoErr, val |-> NilBytes]
    ELSE [err |-> NoErr, val |-> BucketGet(d[bucket], key)]

RECURSIVE WalkLoop(_, _, _, _)
\* for k, v := c.First(); k != nil; k, v = c.Next() { fn(k, v) }
WalkLoop(b, ks, i, acc) ==
    IF CursorValid(ks, i)
    THEN WalkLoop(b, ks, CursorNext(ks, i),
                  Append(acc, <<ks[i], Bytes(b[ks[i]])>>))
    ELSE acc

\* WalkBucket: the calls of fn, in order
StoreWalkBucket(d, bucket) ==
    IF ~HasBucket(d, bucket)
    THEN [err |-> ErrBucketNotExist, visited |-> <<>>]
    ELSE LET b == d[bucket]
             ks == CursorKeys(b)
         IN [err |-> NoErr, visited |-> WalkLoop(b, ks, CursorFirst(ks), <<>>)]

RECURSIVE WalkRootLoop(_, _, _)
\* the root cursor yields each bucket name with a nil value
WalkRootLoop(ks, i, acc) ==
    IF CursorValid(ks, i)
    THEN WalkRootLoop(ks, CursorNext(ks, i), Append(acc, <<ks[i], NilBytes>>))
    ELSE acc

\* Walk: the calls of fn over the root, in order
StoreWalk(d) ==
    LET ks == SortedSeq(DOMAIN d)
    IN [err |-> NoErr, visited |-> WalkRootLoop(ks, CursorFirst(ks), <<>>)]

RECURSIVE WalkPrefixLoop(_, _, _, _, _)
\* for k, v := c.Seek(pre); k != nil && bytes.HasPrefix(k, pre); k, v = c.Next()
WalkPrefixLoop(b, ks, i, p, acc) ==
    IF CursorValid(ks, i) /\ HasPrefix(ks[i], p)
    THEN WalkPrefixLoop(b, ks, CursorNext(ks, i), p,
                        Append(acc, <<ks[i], Bytes(b[ks[i]])>>))
    ELSE acc

\* WalkPrefix: the calls of fn, in order
StoreWalkPrefix(d, bucket, prefix) ==
    IF ~HasBucket(d, bucket)
    THEN [err |-> ErrBucketNotExist, visited |-> <<>>]
    ELSE LET b == d[bucket]
             ks == CursorKeys(b)
         IN [err |-> NoErr,
             visited |-> WalkPrefixLoop(b, ks, CursorSeek(ks, prefix), prefix, <<>>)]

RECURSIVE ForEachLoopShort(_, _, _)
\* mutant of ForEachLoop: the iteration stops one entry early
ForEachLoopShort(ks, i, keys) ==
    IF i < Len(ks)
    THEN ForEachLoopShort(ks, CursorNext(ks, i), Append(keys, ks[i]))
    ELSE keys

RECURSIVE ForEachLoop(_, _, _)
\* b.ForEach(func(k, v) { keys = append(keys, string(k)) })
ForEachLoop(ks, i, keys) ==
    IF CursorValid(ks, i)
    THEN ForEachLoop(ks, CursorNext(ks, i), Append(keys, ks[i]))
    ELSE keys

\* AllKeys (older API): the keys of the bucket as ForEach yields them
StoreAllKeys(d, bucket) ==
    IF ~HasBucket(d, bucket)
    THEN [err |-> ErrBucketNotExist, keys |-> <<>>]
    ELSE LET ks == CursorKeys(d[bucket])
         IN [err |-> NoErr, keys |-> ForEachLoop(ks, CursorFirst(ks), <<>>)]

\* strings.Contains(key, needle)
Contains(key, needle) ==
    \E i \in 0..(Len(key) - Len(needle)) :
        SubSeq(key, i + 1, i + Len(needle)) = needle

RECURSIVE FindKeysLoop(_, _, _, _)
\* for _, key := range keys { if strings.Contains(key, needle)
\*     { keys = append(keys, key) } }: the range runs over the slice AllKeys
\* returned while the matches are appended to that same slice
FindKeysLoop(all, i, keys, needle) ==
    IF i <= Len(all)
    THEN FindKeysLoop(all, i + 1,
                      IF Contains(all[i], needle) THEN Append(keys, all[i])
                      ELSE keys,
                      needle)
    ELSE keys

\* FindKeys (older API)
StoreFindKeys(d, bucket, needle) ==
    LET a == StoreAllKeys(d, bucket)
    IN IF a.err # NoErr
       THEN [err |-> a.err, keys |-> a.keys]
       ELSE [err |-> NoErr, keys |-> FindKeysLoop(a.keys, 1, a.keys, needle)]

RECURSIVE ReadBatchLoopLe(_, _, _, _, _, _)
\* mutant of ReadBatchLoop: the loop tests len(items) <= count
ReadBatchLoopLe(b, ks, i, items, next, count) ==
    IF CursorValid(ks, i) /\ Cardinality(DOMAIN items) <= count
    THEN ReadBatchLoopLe(b, ks, CursorNext(ks, i),
                         [k \in (DOMAIN items) \cup {ks[i]} |->
                              IF k = ks[i] THEN Bytes(b[ks[i]]) ELSE items[k]],
                         ks[i], count)
    ELSE [items |-> items, next |-> next]

RECURSIVE ReadBatchLoop(_, _, _, _, _, _)
\* for k, v := c.Seek(next); k != nil && len(items) < count; k, v = c.Next()
\*     { items[k] = v; next = k }
ReadBatchLoop(b, ks, i, items, next, count) ==
    IF CursorValid(ks, i) /\ Cardinality(DOMAIN items) < count
    THEN ReadBatchLoop(b, ks, CursorNext(ks, i),
                       [k \in (DOMAIN items) \cup {ks[i]} |->
                            IF k = ks[i] THEN Bytes(b[ks[i]]) ELSE items[k]],
                       ks[i], count)
    ELSE [items |-> items, next |-> next]

\* mutant of ReadBatchBody: the next key is not reset after a short page
ReadBatchBodyNoReset(b, next, count) ==
    LET ks == CursorKeys(b)
        r == ReadBatchLoop(b, ks, CursorSeek(ks, next), EmptyMap, next, count)
    IN [items |-> r.items, next |-> r.next]

\* the body of ReadBatch's transaction once the bucket is found
ReadBatchBody(b, next, count) ==
    LET ks == CursorKeys(b)
        r == ReadBatchLoop(b, ks, CursorSeek(ks, next), EmptyMap, next, count)
    IN [items |-> r.items,
        next |-> IF Cardinality(DOMAIN r.items) # count THEN <<>> ELSE r.next]

\* mutant of StoreReadBatchTuple: on a missing bucket the resume key passed in
\* is handed back
StoreReadBatchTupleKeepNext(d, bucket, next, count) ==
    IF ~HasBucket(d, bucket)
    THEN [err |-> ErrBucketNotExist, items |-> EmptyMap, itemsNil |-> TRUE,
          next |-> next]
    ELSE LET r == ReadBatchBody(d[bucket], next, count)
         IN [err |-> NoErr, items |-> r.items, itemsNil |-> FALSE,
             next |-> r.next]

\* ReadBatch(bucket, next, count) returning (items, next, err)
StoreReadBatchTuple(d, bucket, next, count) ==
    IF ~HasBucket(d, bucket)
    THEN [err |-> ErrBucketNotExist, items |-> EmptyMap, itemsNil |-> TRUE,
          next |-> <<>>]
    ELSE LET r == ReadBatchBody(d[bucket], next, count)
         IN [err |-> NoErr, items |-> r.items, itemsNil |-> FALSE,
             next |-> r.next]

\* NewBatch(bucket, count)
NewBatch(bucket, count) ==
    [bucket |-> bucket, items |-> EmptyMap, itemsNil |-> TRUE,
     next |-> <<>>, count |-> count]

\* ReadBatch(bt): updates the batch in place; on error the batch is untouched
StoreReadBatch(d, b) ==
    IF ~HasBucket(d, b.bucket)
    THEN [err |-> ErrBucketNotExist, bt |-> b]
    ELSE LET r == ReadBatchBody(d[b.bucket], b.next, b.count)
         IN [err |-> NoErr,
             bt |-> [b EXCEPT !.items = r.items, !.itemsNil = FALSE,
                              !.next = r.next]]

----------------------------------------------------------------------------
(* The state machine: a caller invoking the Store methods one at a time *)

----------------------------------------------------------------------------
(* NewStore: opening the database file *)

\* for tries := 1; tries < 20; tries += 2
MaxTries == 20

\* errors of bolt.Open
ErrTimeout == "timeout"
ErrNoEnt == "no such file or directory"
ErrCanNotOpen == "store: can not open database"

\* the file as an open attempt finds it: the directory of the path is there
\* or not, and another process holds the file lock or not
FileStates == [dir : BOOLEAN, locked : BOOLEAN]
FileFree == [dir |-> TRUE, locked |-> FALSE]

RECURSIVE Pow2(_)
\* 1 << uint(n)
Pow2(n) == IF n = 0 THEN 1 ELSE 2 * Pow2(n - 1)

\* mutant of OpenTimeout: the timeout is twice the loop counter
OpenTimeoutLinear(tries) == 2 * tries

\* timeout := 1 << uint(tries) * time.Millisecond, in milliseconds
OpenTimeout(tries) == Pow2(tries)

\* bolt.Open(filePath, 0640, &bolt.Options{Timeout: timeout}): fails at once
\* when the directory is missing, and with a timeout when the lock is held
\* for the whole wait
BoltOpen(f, timeout) ==
    IF ~f.dir THEN ErrNoEnt
    ELSE IF f.locked THEN ErrTimeout
    ELSE NoErr

\* the loop condition of NewStore
TriesLeft(tries) == tries < MaxTries

\* mutant of TriesNext: the loop counter goes up by one
TriesNextByOne(tries) == tries + 1

\* the loop increment of NewStore
TriesNext(tries) == tries + 2

\* no NewStore call has been made. err is the function's own `var err error`;
\* openErr is the err that `db, err := bolt.Open(...)` declares in the loop
\* body; attempts and timeouts log the calls of bolt.Open.
NoNewStore ==
    [pc |-> "idle", tries |-> 0, err |-> NoErr, openErr |-> NoErr,
     attempts |-> 0, timeouts |-> <<>>, handle |-> FALSE,
     retStore |-> FALSE, retErr |-> NoErr, retWraps |-> NoErr]

\* no traversal is running. snap is the database as the transaction sees it,
\* pos the cursor, visited the calls of fn (or the items stored) so far.
NoTx ==
    [active |-> FALSE, op |-> "none", bucket |-> <<>>, arg |-> <<>>,
     count |-> 0, snap |-> EmptyMap, pos |-> 0, visited |-> <<>>,
     next |-> <<>>, err |-> NoErr, done |-> FALSE, raced |-> FALSE]

\* no update is in progress
NoUpdate ==
    [pc |-> "idle", op |-> "none", bucket |-> <<>>, key |-> <<>>,
     value |-> NilBytes, old |-> NilBytes, txns |-> 0, err |-> NoErr,
     observed |-> FALSE, seen |-> [err |-> NoErr, val |-> NilBytes]]

\* no Backup call is in progress
NoBackup ==
    [pc |-> "idle", snap |-> EmptyMap, destOk |-> TRUE, created |-> FALSE,
     open |-> FALSE, content |-> EmptyMap, err |-> NoErr]

\* main has not started
NoMain ==
    [pc |-> "start", action |-> "none", calls |-> <<>>, printed |-> FALSE]

\* NewStore is called: var err error; s := new(Store); tries := 1
NewStoreCall ==
    /\ ns.pc = "idle"
    /\ ns' = [NoNewStore EXCEPT !.pc = "loop", !.tries = 1]
    /\ UNCHANGED <<db, pre, last, pc, bt, chain, fs, tx, upd, bk, kv>>

\* one pass of the loop body: an open attempt; on success s.db = db and
\* return s, nil; on failure the error stays in the body's own err
NewStoreAttempt ==
    /\ ns.pc = "loop"
    /\ TriesLeft(ns.tries)
    /\ LET timeout == OpenTimeout(ns.tries)
           err == BoltOpen(fs, timeout)
           tried == [ns EXCEPT !.attempts = ns.attempts + 1,
                               !.timeouts = Append(ns.timeouts, timeout),
                               !.openErr = err]
       IN ns' = IF err = NoErr
                THEN [tried EXCEPT !.pc = "done", !.handle = TRUE,
                                   !.retStore = TRUE, !.retErr = NoErr]
                ELSE [tried EXCEPT !.tries = TriesNext(ns.tries)]
    /\ UNCHANGED <<db, pre, last, pc, bt, chain, fs, tx, upd, bk, kv>>

\* the loop is over: return nil, fmt.Errorf("store: can not open database
\* %s: %s", filePath, err), where err is the function's own err
NewStoreGiveUp ==
    /\ ns.pc = "loop"
    /\ ~TriesLeft(ns.tries)
    /\ ns' = [ns EXCEPT !.pc = "done", !.retStore = FALSE,
                        !.retErr = ErrCanNotOpen, !.retWraps = ns.err]
    /\ UNCHANGED <<db, pre, last, pc, bt, chain, fs, tx, upd, bk, kv>>

\* other processes create or remove the directory, take or release the lock
FileChange ==
    /\ \E f \in FileStates : f # fs /\ fs' = f
    /\ UNCHANGED <<db, pre, last, pc, bt, chain, ns, tx, upd, bk, kv>>

NewStoreStep == NewStoreCall \/ NewStoreAttempt \/ NewStoreGiveUp

\* the record of a call, before its arguments and results are filled in
NoCall ==
    [op |-> "none", bucket |-> <<>>, key |-> <<>>, value |-> NilBytes,
     count |-> 0, err |-> NoErr, val |-> NilBytes, visited |-> <<>>,
     keys |-> <<>>, items |-> EmptyMap, itemsNil |-> TRUE, next |-> <<>>,
     txn |-> "none"]

\* the engine call each method wraps its function in: s.db.View is a
\* read-only transaction, s.db.Update and s.db.Batch are read-write ones.
\* FindKeys has no transaction of its own: it runs the one of AllKeys.
TxnOf(op) ==
    IF op \in {"Walk", "WalkBucket", "WalkPrefix", "ReadBatch",
               "ReadBatchTuple", "Read", "ReadOld"}
    THEN "View"
    ELSE IF op = "Write" THEN "Batch"
    ELSE "Update"

\* no resume chain in progress
NoChain == [variant |-> "none", covered |-> {}, dup |-> FALSE, done |-> FALSE,
            odd |-> FALSE, started |-> FALSE, alive |-> {}, cut |-> FALSE,
            failed |-> FALSE]

\* NewStore on a fresh file: an open, empty database
Init ==
    /\ db = EmptyMap
    /\ pre = EmptyMap
    /\ last = NoCall
    /\ pc = "idle"
    /\ bt = NewBatch(<<>>, 0)
    /\ chain = NoChain
    /\ ns = NoNewStore
    /\ fs = FileFree
    /\ tx = NoTx
    /\ upd = NoUpdate
    /\ bk = NoBackup
    /\ kv = NoMain

\* the caller makes a call and gets its results back
Returns(call) ==
    /\ pc = "idle"
    /\ pc' = "returned"
    /\ pre' = db
    /\ last' = [call EXCEPT !.txn = TxnOf(call.op)]
    /\ UNCHANGED <<bt, chain, ns, fs, tx, upd, bk, kv>>

\* the caller is done with the results and is ready for its next call
Return ==
    /\ pc = "returned"
    /\ pc' = "idle"
    /\ pre' = db
    /\ last' = NoCall
    /\ UNCHANGED <<db, bt, chain, ns, fs, tx, upd, bk, kv>>

CreateBucket(bucket) ==
    LET r == StoreCreateBucket(db, bucket)
    IN /\ pc = "idle"
       /\ db' = r.db
       /\ Returns([NoCall EXCEPT !.op = "CreateBucket", !.bucket = bucket,
                                 !.err = r.err])

DeleteBucket(bucket) ==
    LET r == StoreDeleteBucket(db, bucket)
    IN /\ pc = "idle"
       /\ db' = r.db
       /\ Returns([NoCall EXCEPT !.op = "DeleteBucket", !.bucket = bucket,
                                 !.err = r.err])

Write(bucket, key, value) ==
    LET r == StoreWrite(db, bucket, key, value)
    IN /\ pc = "idle"
       /\ db' = r.db
       /\ Returns([NoCall EXCEPT !.op = "Write", !.bucket = bucket,
                                 !.key = key, !.value = value, !.err = r.err])

Create(bucket, key, value) ==
    LET r == StoreCreate(db, bucket, key, value)
    IN /\ pc = "idle"
       /\ db' = r.db
       /\ Returns([NoCall EXCEPT !.op = "Create", !.bucket = bucket,
                                 !.key = key, !.value = value, !.err = r.err])

Read(bucket, key) ==
    LET r == StoreRead(db, bucket, key)
    IN /\ pc = "idle"
       /\ db' = db
       /\ Returns([NoCall EXCEPT !.op = "Read", !.bucket = bucket, !.key = key,
                                 !.err = r.err, !.val = r.val])

ReadOld(bucket, key) ==
    LET r == StoreReadOld(db, bucket, key)
    IN /\ pc = "idle"
       /\ db' = db
       /\ Returns([NoCall EXCEPT !.op = "ReadOld", !.bucket = bucket,
                                 !.key = key, !.err = r.err, !.val = r.val])

Delete(bucket, key) ==
    LET r == StoreDelete(db, bucket, key)
    IN /\ pc = "idle"
       /\ db' = r.db
       /\ Returns([NoCall EXCEPT !.op = "Delete", !.bucket = bucket,
                                 !.key = key, !.err = r.err])

Walk ==
    LET r == StoreWalk(db)
    IN /\ pc = "idle"
       /\ db' = db
       /\ Returns([NoCall EXCEPT !.op = "Walk", !.err = r.err,
                                 !.visited = r.visited])

WalkBucket(bucket) ==
    LET r == StoreWalkBucket(db, bucket)
    IN /\ pc = "idle"
       /\ db' = db
       /\ Returns([NoCall EXCEPT !.op = "WalkBucket", !.bucket = bucket,
                                 !.err = r.err, !.visited = r.visited])

WalkPrefix(bucket, prefix) ==
    LET r == StoreWalkPrefix(db, bucket, prefix)
    IN /\ pc = "idle"
       /\ db' = db
       /\ Returns([NoCall EXCEPT !.op = "WalkPrefix", !.bucket = bucket,
                                 !.key = prefix, !.err = r.err,
                                 !.visited = r.visited])

AllKeys(bucket) ==
    LET r == StoreAllKeys(db, bucket)
    IN /\ pc = "idle"
       /\ db' = db
       /\ Returns([NoCall EXCEPT !.op = "AllKeys", !.bucket = bucket,
                                 !.err = r.err, !.keys = r.keys])

FindKeys(bucket, needle) ==
    LET r == StoreFindKeys(db, bucket, needle)
    IN /\ pc = "idle"
       /\ db' = db
       /\ Returns([NoCall EXCEPT !.op = "FindKeys", !.bucket = bucket,
                                 !.key = needle, !.err = r.err,
                                 !.keys = r.keys])

ReadBatchTuple(bucket, next, count) ==
    LET r == StoreReadBatchTuple(db, bucket, next, count)
    IN /\ pc = "idle"
       /\ db' = db
       /\ Returns([NoCall EXCEPT !.op = "ReadBatchTuple", !.bucket = bucket,
                                 !.key = next, !.count = count, !.err = r.err,
                                 !.items = r.items, !.itemsNil = r.itemsNil,
                                 !.next = r.next])

\* a write the caller makes while the database holds at most cap entries
Fits(bucket, key, value, cap) ==
    /\ pc = "idle"
    /\ TotalEntries(StoreWrite(db, bucket, key, value).db) <= cap

\* every method, on every bucket name, with few keys and entries
Next ==
    \/ \E b \in BucketInputs : CreateBucket(b)
    \/ \E b \in BucketInputs : DeleteBucket(b)
    \/ \E b \in BucketInputs, k \in ShortKeys, v \in ValueInputs :
            Fits(b, k, v, MaxEntries) /\ Write(b, k, v)
    \/ \E b \in BucketInputs, k \in ShortKeys, v \in ValueInputs :
            Fits(b, k, v, MaxEntries) /\ Create(b, k, v)
    \/ \E b \in BucketInputs, k \in ShortKeys : Read(b, k)
    \/ \E b \in BucketInputs, k \in ShortKeys : ReadOld(b, k)
    \/ \E b \in BucketInputs, k \in ShortKeys : Delete(b, k)
    \/ Walk
    \/ \E b \in BucketInputs : WalkBucket(b)
    \/ \E b \in BucketInputs, p \in ShortKeys : WalkPrefix(b, p)
    \/ \E b \in BucketInputs : AllKeys(b)
    \/ \E b \in BucketInputs, n \in ShortKeys : FindKeys(b, n)
    \/ \E b \in BucketInputs, n \in ShortKeys, c \in 0..MaxCount :
            ReadBatchTuple(b, n, c)
    \/ Return

Spec == Init /\ [][Next]_vars

\* the bucket the traversals scan
ScanBucket == <<1>>

\* writes, deletes and traversals of one bucket, with every key and more
\* entries; each key is written with its own bytes as the value
NextScan ==
    \/ CreateBucket(ScanBucket)
    \/ \E k \in KeyInputs :
            Fits(ScanBucket, k, Bytes(k), MaxScanEntries)
                /\ Write(ScanBucket, k, Bytes(k))
    \/ \E k \in KeyInputs : Delete(ScanBucket, k)
    \/ WalkBucket(ScanBucket)
    \/ \E p \in KeyInputs : WalkPrefix(ScanBucket, p)
    \/ AllKeys(ScanBucket)
    \/ \E n \in KeyInputs : FindKeys(ScanBucket, n)
    \/ Return

SpecScan == Init /\ [][NextScan]_vars

----------------------------------------------------------------------------
(* A ReadBatch resume chain: the caller starts from the empty resume key and
   feeds each call's next key into the following call, with no write in
   between, until a call returns the empty next key *)

\* the keys a bucket can hold
StoredKeys == KeyInputs \ {<<>>}

\* a bucket holding the keys of S, each written with its own bytes as value
BucketOf(S) == [k \in S |-> k]

\* the database holds one bucket with some entries; the caller has a new
\* batch for it (store.go) or the empty resume key (tuple variant)
InitPage ==
    /\ \E S \in SUBSET StoredKeys :
            /\ Cardinality(S) <= MaxChainEntries
            /\ db = [n \in {ScanBucket} |-> BucketOf(S)]
    /\ pre = db
    /\ last = NoCall
    /\ pc = "idle"
    /\ \E c \in 0..MaxCount : bt = NewBatch(ScanBucket, c)
    /\ \E v \in {"batch", "tuple"} :
            chain = [NoChain EXCEPT !.variant = v]
    /\ ns = NoNewStore
    /\ fs = FileFree
    /\ tx = NoTx
    /\ upd = NoUpdate
    /\ bk = NoBackup
    /\ kv = NoMain

\* what the caller has seen of the chain once a page has come back: the keys
\* so far, whether one came twice, whether the empty next key came, and
\* whether the number of calls made is odd; alive are the keys stored at the
\* first call and ever since
Paged(page, next) ==
    [chain EXCEPT !.covered = chain.covered \cup DOMAIN page,
                  !.dup = chain.dup \/ (chain.covered \cap DOMAIN page # {}),
                  !.done = (next = <<>>),
                  !.odd = ~chain.odd,
                  !.started = TRUE,
                  !.alive = IF chain.started THEN chain.alive
                            ELSE DOMAIN db[bt.bucket]]

\* a call of the chain returned an error: the caller stops
PageFailed ==
    [chain EXCEPT !.failed = TRUE, !.done = TRUE, !.odd = ~chain.odd,
                  !.started = TRUE]

\* one more ReadBatch(bt) of the chain
PageReadBatch ==
    /\ chain.variant = "batch"
    /\ ~chain.done
    /\ \E r \in {StoreReadBatch(db, bt)} :
        /\ bt' = r.bt
        /\ chain' = IF r.err = NoErr THEN Paged(r.bt.items, r.bt.next)
                    ELSE PageFailed
        /\ last' = [NoCall EXCEPT !.op = "ReadBatch", !.bucket = bt.bucket,
                                  !.key = bt.next, !.count = bt.count,
                                  !.err = r.err, !.items = r.bt.items,
                                  !.itemsNil = r.bt.itemsNil,
                                  !.next = r.bt.next,
                                  !.txn = TxnOf("ReadBatch")]
    /\ pre' = db
    /\ UNCHANGED <<db, pc, ns, fs, tx, upd, bk, kv>>

\* one more ReadBatch(bucket, next, count) of the chain; the caller keeps the
\* returned page and next key
PageReadBatchTuple ==
    /\ chain.variant = "tuple"
    /\ ~chain.done
    /\ \E r \in {StoreReadBatchTuple(db, bt.bucket, bt.next, bt.count)} :
        /\ bt' = [bt EXCEPT !.items = r.items, !.itemsNil = r.itemsNil,
                            !.next = r.next]
        /\ chain' = IF r.err = NoErr THEN Paged(r.items, r.next)
                    ELSE PageFailed
        /\ last' = [NoCall EXCEPT !.op = "ReadBatchTuple",
                                  !.bucket = bt.bucket, !.key = bt.next,
                                  !.count = bt.count, !.err = r.err,
                                  !.items = r.items, !.itemsNil = r.itemsNil,
                                  !.next = r.next,
                                  !.txn = TxnOf("ReadBatchTuple")]
    /\ pre' = db
    /\ UNCHANGED <<db, pc, ns, fs, tx, upd, bk, kv>>

NextPage ==
    \/ PageReadBatch
    \/ PageReadBatchTuple

SpecPage == InitPage /\ [][NextPage]_vars

\* the caller keeps calling for as long as the chain is not complete
SpecPageFair == SpecPage /\ WF_vars(NextPage)

----------------------------------------------------------------------------
(* NewStore on its own, while other processes change the file *)

InitOpen ==
    /\ db = EmptyMap
    /\ pre = EmptyMap
    /\ last = NoCall
    /\ pc = "idle"
    /\ bt = NewBatch(<<>>, 0)
    /\ chain = NoChain
    /\ ns = NoNewStore
    /\ fs \in FileStates
    /\ tx = NoTx
    /\ upd = NoUpdate
    /\ bk = NoBackup
    /\ kv = NoMain

NextOpen == NewStoreStep \/ FileChange

SpecOpen == InitOpen /\ [][NextOpen]_vars

\* an open attempt returns within its timeout and the loop goes on
SpecOpenFair == SpecOpen /\ WF_vars(NewStoreStep)

----------------------------------------------------------------------------
(* A traversal stepping through its read transaction while other threads
   commit writes *)

\* most entries of the bucket a traversal races with
MaxConcEntries == 2

\* the keys the other threads write and delete
ConcKeys == {<<1>>, <<1, 2>>, <<2>>}
\* the values the other threads write
ConcValues == {Bytes(<<>>), Bytes(<<1>>)}
\* the bucket that is only created and deleted
OtherBucket == <<2>>

\* mutant of TxView: every cursor step reads the committed database of the
\* moment, as if each step ran in a transaction of its own
TxViewLive(t) == db

\* the database a read transaction sees: the engine's snapshot taken when
\* db.View began the transaction
TxView(t) == t.snap

\* the keys under the transaction's cursor: the root for Walk, the bucket
\* for the others
TxCursorKeys(view, t) ==
    IF t.op = "Walk" THEN SortedSeq(DOMAIN view)
    ELSE IF HasBucket(view, t.bucket) THEN CursorKeys(view[t.bucket])
    ELSE <<>>

\* what the cursor yields at position i: k and v
TxCursorEntry(view, t, ks, i) ==
    IF t.op = "Walk" THEN <<ks[i], NilBytes>>
    ELSE <<ks[i], Bytes(view[t.bucket][ks[i]])>>

\* where the cursor starts: c.First() or c.Seek(arg)
TxCursorStart(ks, t) ==
    IF t.op \in {"WalkPrefix", "ReadBatchTuple"} THEN CursorSeek(ks, t.arg)
    ELSE CursorFirst(ks)

\* the condition of the traversal's for loop
TxLoopCond(t, ks) ==
    /\ CursorValid(ks, t.pos)
    /\ t.op = "WalkPrefix" => HasPrefix(ks[t.pos], t.arg)
    /\ t.op = "ReadBatchTuple" => Len(t.visited) < t.count

\* s.db.View(func(tx) ...) begins: the bucket is looked up and the cursor is
\* placed; a missing bucket ends the call with the error
ViewBegin(op, bucket, arg, count) ==
    /\ ~tx.active
    /\ LET t == [NoTx EXCEPT !.active = TRUE, !.op = op, !.bucket = bucket,
                             !.arg = arg, !.count = count, !.snap = db,
                             !.next = arg]
           ks == TxCursorKeys(TxView(t), t)
       IN tx' = IF op # "Walk" /\ ~HasBucket(TxView(t), bucket)
                THEN [t EXCEPT !.done = TRUE, !.err = ErrBucketNotExist,
                               !.next = <<>>]
                ELSE [t EXCEPT !.pos = TxCursorStart(ks, t)]
    /\ UNCHANGED <<db, pre, last, pc, bt, chain, ns, fs, upd, bk, kv>>

\* one pass of the for loop: fn(k, v) or items[k] = v, then c.Next(); or
\* the loop ends and the transaction function returns
ViewStep ==
    /\ tx.active
    /\ ~tx.done
    /\ LET view == TxView(tx)
           ks == TxCursorKeys(view, tx)
       IN tx' = IF TxLoopCond(tx, ks)
                THEN [tx EXCEPT !.visited =
                                    Append(tx.visited,
                                           TxCursorEntry(view, tx, ks, tx.pos)),
                                !.next = ks[tx.pos],
                                !.pos = CursorNext(ks, tx.pos)]
                ELSE [tx EXCEPT !.done = TRUE,
                                !.next =
                                    IF tx.op = "ReadBatchTuple"
                                       /\ Len(tx.visited) = tx.count
                                    THEN tx.next ELSE <<>>]
    /\ UNCHANGED <<db, pre, last, pc, bt, chain, ns, fs, upd, bk, kv>>

\* the call has returned and the caller goes on
ViewEnd ==
    /\ tx.active
    /\ tx.done
    /\ tx' = NoTx
    /\ UNCHANGED <<db, pre, last, pc, bt, chain, ns, fs, upd, bk, kv>>

\* a commit of another thread while the traversal is part way through
Raced(newdb) ==
    IF tx.active /\ ~tx.done /\ newdb # db
    THEN [tx EXCEPT !.raced = TRUE]
    ELSE tx

\* a call of another thread commits
OtherCommit(newdb) ==
    /\ db' = newdb
    /\ tx' = Raced(newdb)
    /\ UNCHANGED <<pre, last, pc, bt, chain, ns, fs, upd, bk, kv>>

OtherWrite(bucket, key, value) ==
    /\ TotalEntries(db) < MaxConcEntries
        \/ (HasBucket(db, bucket) /\ key \in DOMAIN db[bucket])
    /\ OtherCommit(StoreWrite(db, bucket, key, value).db)

OtherDelete(bucket, key) == OtherCommit(StoreDelete(db, bucket, key).db)

OtherCreateBucket(bucket) == OtherCommit(StoreCreateBucket(db, bucket).db)

OtherDeleteBucket(bucket) == OtherCommit(StoreDeleteBucket(db, bucket).db)

NextConc ==
    \/ ViewBegin("Walk", <<>>, <<>>, 0)
    \/ ViewBegin("WalkBucket", ScanBucket, <<>>, 0)
    \/ \E p \in {<<1>>, <<2>>} : ViewBegin("WalkPrefix", ScanBucket, p, 0)
    \/ \E n \in {<<>>, <<1, 2>>}, c \in 1..MaxCount :
            ViewBegin("ReadBatchTuple", ScanBucket, n, c)
    \/ ViewStep
    \/ ViewEnd
    \/ \E k \in ConcKeys, v \in ConcValues : OtherWrite(ScanBucket, k, v)
    \/ \E k \in ConcKeys : OtherDelete(ScanBucket, k)
    \/ \E b \in {ScanBucket, OtherBucket} : OtherCreateBucket(b)
    \/ \E b \in {ScanBucket, OtherBucket} : OtherDeleteBucket(b)

SpecConc == Init /\ [][NextConc]_vars

----------------------------------------------------------------------------
(* An update of one key while another thread reads that key *)

\* Update (older API) is called: s.Delete is about to run
UpdateCall(bucket, key, value) ==
    /\ upd.pc = "idle"
    /\ upd' = [NoUpdate EXCEPT !.pc = "delete", !.op = "Update",
                               !.bucket = bucket, !.key = key,
                               !.value = value,
                               !.old = StoreReadOld(db, bucket, key).val]
    /\ UNCHANGED <<db, pre, last, pc, bt, chain, ns, fs, tx, bk, kv>>

\* err := s.Delete(bucket, key): the first transaction of Update commits
UpdateDelete ==
    /\ upd.pc = "delete"
    /\ LET r == StoreDelete(db, upd.bucket, upd.key)
       IN /\ db' = r.db
          /\ upd' = [upd EXCEPT !.txns = upd.txns + 1, !.err = r.err,
                                !.pc = IF r.err = NoErr THEN "create"
                                       ELSE "returned"]
    /\ UNCHANGED <<pre, last, pc, bt, chain, ns, fs, tx, bk, kv>>

\* err = s.Create(bucket, key, value): the second transaction of Update
UpdateCreate ==
    /\ upd.pc = "create"
    /\ LET r == StoreCreate(db, upd.bucket, upd.key, upd.value)
       IN /\ db' = r.db
          /\ upd' = [upd EXCEPT !.txns = upd.txns + 1, !.err = r.err,
                                !.pc = "returned"]
    /\ UNCHANGED <<pre, last, pc, bt, chain, ns, fs, tx, bk, kv>>

\* Write is called: its s.db.Batch transaction is about to run
WriteCall(bucket, key, value) ==
    /\ upd.pc = "idle"
    /\ upd' = [NoUpdate EXCEPT !.pc = "write", !.op = "Write",
                               !.bucket = bucket, !.key = key,
                               !.value = value,
                               !.old = StoreReadOld(db, bucket, key).val]
    /\ UNCHANGED <<db, pre, last, pc, bt, chain, ns, fs, tx, bk, kv>>

\* the transaction of Write commits or rolls back
WriteCommit ==
    /\ upd.pc = "write"
    /\ LET r == StoreWrite(db, upd.bucket, upd.key, upd.value)
       IN /\ db' = r.db
          /\ upd' = [upd EXCEPT !.txns = upd.txns + 1, !.err = r.err,
                                !.pc = "returned"]
    /\ UNCHANGED <<pre, last, pc, bt, chain, ns, fs, tx, bk, kv>>

\* the update has returned and its caller goes on
UpdateReturn ==
    /\ upd.pc = "returned"
    /\ upd' = NoUpdate
    /\ UNCHANGED <<db, pre, last, pc, bt, chain, ns, fs, tx, bk, kv>>

\* another thread reads the key while the update is between its call and its
\* return
ReaderRead ==
    /\ upd.pc \in {"delete", "create", "write"}
    /\ upd' = [upd EXCEPT !.observed = TRUE,
                          !.seen = StoreRead(db, upd.bucket, upd.key)]
    /\ UNCHANGED <<db, pre, last, pc, bt, chain, ns, fs, tx, bk, kv>>

\* the database is filled while no update is in progress
UpdateSetup ==
    /\ upd.pc = "idle"
    /\ \/ OtherCreateBucket(ScanBucket)
       \/ \E k \in ConcKeys, v \in ConcValues : OtherWrite(ScanBucket, k, v)
       \/ \E k \in ConcKeys : OtherDelete(ScanBucket, k)

NextUpdate ==
    \/ UpdateSetup
    \/ \E b \in {ScanBucket, OtherBucket}, k \in ConcKeys, v \in ConcValues :
            UpdateCall(b, k, v) \/ WriteCall(b, k, v)
    \/ UpdateDelete
    \/ UpdateCreate
    \/ WriteCommit
    \/ UpdateReturn
    \/ ReaderRead

SpecUpdate == Init /\ [][NextUpdate]_vars

----------------------------------------------------------------------------
(* A resume chain with Write, Delete, DeleteBucket and CreateBucket calls
   made between its ReadBatch calls *)

\* the bucket holds some of the keys the other calls write and delete
InitMix ==
    /\ \E S \in SUBSET ConcKeys : db = [n \in {ScanBucket} |-> BucketOf(S)]
    /\ pre = db
    /\ last = NoCall
    /\ pc = "idle"
    /\ \E c \in 0..MaxCount : bt = NewBatch(ScanBucket, c)
    /\ \E v \in {"batch", "tuple"} :
            chain = [NoChain EXCEPT !.variant = v]
    /\ ns = NoNewStore
    /\ fs = FileFree
    /\ tx = NoTx
    /\ upd = NoUpdate
    /\ bk = NoBackup
    /\ kv = NoMain

\* a call between two pages commits; the keys it removed no longer count as
\* stored throughout the chain, and cut records that the resume key at hand
\* was removed
MixCommit(newdb) ==
    /\ ~chain.done
    /\ db' = newdb
    /\ LET keys == IF HasBucket(newdb, ScanBucket)
                   THEN DOMAIN newdb[ScanBucket] ELSE {}
       IN chain' = [chain EXCEPT
                        !.alive = chain.alive \cap keys,
                        !.cut = chain.cut \/ (/\ chain.started
                                              /\ bt.next \in chain.alive
                                              /\ bt.next \notin keys)]
    /\ UNCHANGED <<pre, last, pc, bt, ns, fs, tx, upd, bk, kv>>

MixWrite(key) == MixCommit(StoreWrite(db, ScanBucket, key, Bytes(key)).db)

MixDelete(key) == MixCommit(StoreDelete(db, ScanBucket, key).db)

MixDeleteBucket == MixCommit(StoreDeleteBucket(db, ScanBucket).db)

MixCreateBucket == MixCommit(StoreCreateBucket(db, ScanBucket).db)

NextMix ==
    \/ PageReadBatch
    \/ PageReadBatchTuple
    \/ \E k \in ConcKeys : MixWrite(k)
    \/ \E k \in ConcKeys : MixDelete(k)
    \/ MixDeleteBucket
    \/ MixCreateBucket

SpecMix == InitMix /\ [][NextMix]_vars

----------------------------------------------------------------------------
(* Backup while other threads commit writes *)

ErrBackupFile == "store: could not create backup file"
ErrBackupWrite == "store: could not write to backup file"

\* mutant of BackupView: the copy reads the committed database of the moment
BackupViewLive(b) == db

\* the database tx.WriteTo copies: the snapshot of the read transaction that
\* s.db.View began
BackupView(b) == b.snap

\* Backup is called and s.db.View begins the read transaction; the
\* destination can be created or not
BackupBegin(destOk) ==
    /\ bk.pc = "idle"
    /\ bk' = [NoBackup EXCEPT !.pc = "create", !.snap = db,
                              !.destOk = destOk]
    /\ UNCHANGED <<db, pre, last, pc, bt, chain, ns, fs, tx, upd, kv>>

\* file, err := os.Create(filename); on an error the function returns it; on
\* success the new file is empty and open, and defer file.Close() is set up
BackupCreate ==
    /\ bk.pc = "create"
    /\ bk' = IF bk.destOk
             THEN [bk EXCEPT !.pc = "write", !.created = TRUE, !.open = TRUE]
             ELSE [bk EXCEPT !.pc = "returned", !.err = ErrBackupFile]
    /\ UNCHANGED <<db, pre, last, pc, bt, chain, ns, fs, tx, upd, kv>>

\* tx.WriteTo(file) copies the next bucket of the transaction's database, or
\* has copied them all and the function returns nil
BackupWrite ==
    /\ bk.pc = "write"
    /\ LET view == BackupView(bk)
           todo == SortedSeq(DOMAIN view \ DOMAIN bk.content)
       IN bk' = IF todo = <<>>
                THEN [bk EXCEPT !.pc = "close"]
                ELSE [bk EXCEPT !.content =
                        [n \in DOMAIN bk.content \cup {todo[1]} |->
                            IF n = todo[1] THEN view[n] ELSE bk.content[n]]]
    /\ UNCHANGED <<db, pre, last, pc, bt, chain, ns, fs, tx, upd, kv>>

\* tx.WriteTo(file) fails part way and the function returns the error
BackupWriteFail ==
    /\ bk.pc = "write"
    /\ bk' = [bk EXCEPT !.pc = "close", !.err = ErrBackupWrite]
    /\ UNCHANGED <<db, pre, last, pc, bt, chain, ns, fs, tx, upd, kv>>

\* the deferred file.Close() runs as the function returns
BackupClose ==
    /\ bk.pc = "close"
    /\ bk' = [bk EXCEPT !.pc = "returned", !.open = FALSE]
    /\ UNCHANGED <<db, pre, last, pc, bt, chain, ns, fs, tx, upd, kv>>

\* Backup has returned and its caller goes on
BackupReturn ==
    /\ bk.pc = "returned"
    /\ bk' = NoBackup
    /\ UNCHANGED <<db, pre, last, pc, bt, chain, ns, fs, tx, upd, kv>>

BackupStep ==
    \/ \E ok \in BOOLEAN : BackupBegin(ok)
    \/ BackupCreate
    \/ BackupWrite
    \/ BackupWriteFail
    \/ BackupClose
    \/ BackupReturn

NextBackup ==
    \/ BackupStep
    \/ \E k \in ConcKeys, v \in ConcValues : OtherWrite(ScanBucket, k, v)
    \/ \E k \in ConcKeys : OtherDelete(ScanBucket, k)
    \/ \E b \in {ScanBucket, OtherBucket} : OtherCreateBucket(b)
    \/ \E b \in {ScanBucket, OtherBucket} : OtherDeleteBucket(b)

SpecBackup == Init /\ [][NextBackup]_vars

----------------------------------------------------------------------------
(* The kv command-line program *)

\* bolt.Options{Timeout: 1 * time.Second} of the older NewStore, in
\* milliseconds
OldOpenTimeout == 1000

\* NewStore of the older API: one open attempt; s is returned with the error
\* and has no database when the attempt failed
NewStoreOld ==
    /\ ns.pc = "idle"
    /\ LET err == BoltOpen(fs, OldOpenTimeout)
       IN ns' = [NoNewStore EXCEPT !.pc = "done", !.attempts = 1,
                                   !.timeouts = <<OldOpenTimeout>>,
                                   !.openErr = err, !.handle = (err = NoErr),
                                   !.retStore = TRUE, !.retErr = err,
                                   !.retWraps = err]
    /\ UNCHANGED <<db, pre, last, pc, bt, chain, fs, tx, upd, bk, kv>>

\* the Store method an action of the command line calls for a number of
\* arguments, or help() when the number fits none
MainCallOf(action, nargs) ==
    CASE action = "add" /\ nargs = 1 -> "CreateBucket"
      [] action = "add" /\ nargs = 3 -> "Write"
      [] action = "get" /\ nargs = 0 -> "AllBuckets"
      [] action = "get" /\ nargs = 1 -> "AllKeys"
      [] action = "get" /\ nargs = 2 -> "Read"
      [] action = "val" /\ nargs = 1 -> "AllVals"
      [] action = "val" /\ nargs = 2 -> "FindVals"
      [] action = "del" /\ nargs = 1 -> "DeleteBucket"
      [] action = "del" /\ nargs = 2 -> "Delete"
      [] action = "find" /\ nargs = 1 -> "FindBuckets"
      [] action = "find" /\ nargs = 2 -> "FindKeys"
      [] action = "backup" /\ nargs = 1 -> "Backup"
      [] OTHER -> "help"

MainActions == {"add", "get", "val", "del", "find", "backup", "other"}

\* a method is called on db: with a nil Store, or a Store without a database,
\* the call dereferences nil and the program dies
MainCalls(method) ==
    [kv EXCEPT !.calls = Append(kv.calls, method),
               !.pc = IF ns.handle THEN "close" ELSE "panicked"]

\* main begins: with fewer than three arguments help() exits
MainStart(argsOk) ==
    /\ kv.pc = "start"
    /\ kv' = [kv EXCEPT !.pc = IF argsOk THEN "open" ELSE "exited"]
    /\ UNCHANGED <<db, pre, last, pc, bt, chain, ns, fs, tx, upd, bk>>

\* db, err := store.NewStore(dbfile) has returned; an error is printed and
\* main goes on to the action
MainOpened ==
    /\ kv.pc = "open"
    /\ ns.pc = "done"
    /\ kv' = [kv EXCEPT !.pc = "dispatch", !.printed = (ns.retErr # NoErr)]
    /\ UNCHANGED <<db, pre, last, pc, bt, chain, ns, fs, tx, upd, bk>>

\* switch action: the function of the action calls its method on db, or
\* help() exits
MainDispatch(action, nargs) ==
    /\ kv.pc = "dispatch"
    /\ LET method == MainCallOf(action, nargs)
       IN kv' = IF method = "help"
                THEN [kv EXCEPT !.action = action, !.pc = "exited"]
                ELSE [MainCalls(method) EXCEPT !.action = action]
    /\ UNCHANGED <<db, pre, last, pc, bt, chain, ns, fs, tx, upd, bk>>

\* db.Close() at the end of main
MainClose ==
    /\ kv.pc = "close"
    /\ kv' = [MainCalls("Close") EXCEPT !.pc = "exited"]
    /\ UNCHANGED <<db, pre, last, pc, bt, chain, ns, fs, tx, upd, bk>>

NextMain ==
    \/ \E ok \in BOOLEAN : MainStart(ok)
    \/ kv.pc = "open" /\ (NewStoreStep \/ NewStoreOld)
    \/ MainOpened
    \/ \E a \in MainActions, n \in 0..3 : MainDispatch(a, n)
    \/ MainClose
    \/ FileChange

SpecMain == InitOpen /\ [][NextMain]_vars

----------------------------------------------------------------------------
(* Properties *)

\* the keys of a sequence of visited (key, value) pairs
VisitedKeys(v) == {v[i][1] : i \in 1..Len(v)}

\* how often key k occurs in a sequence of keys
Occurrences(keys, k) == Cardinality({i \in 1..Len(keys) : keys[i] = k})

C2_BucketsOnlyByBucketOps ==
    pc = "returned" =>
        /\ last.op \notin {"CreateBucket", "DeleteBucket"}
                => DOMAIN db = DOMAIN pre
        /\ last.err = ErrBucketNotExist => db = pre

\* a Write refused for its missing bucket while the database holds entries
C2_Witness ==
    /\ pc = "returned"
    /\ last.op = "Write"
    /\ last.key # <<>>
    /\ last.err = ErrBucketNotExist
    /\ TotalEntries(pre) > 0
    /\ db = pre

\* C3: a Read of (b, k) made right after a successful Write(b, k, v) returns
\* the bytes of v and no error, the nil and the empty value included.
C3_RoundTrip ==
    (/\ pc = "returned"
     /\ last.op = "Write"
     /\ last.err = NoErr)
        => LET r == StoreRead(db, last.bucket, last.key)
           IN /\ r.err = NoErr
              /\ ~r.val.isnil
              /\ r.val.bytes = last.value.bytes

\* a nil value was written and reads back as the empty value
C3_Witness ==
    /\ pc = "returned"
    /\ last.op = "Write"
    /\ last.err = NoErr
    /\ last.value = NilBytes
    /\ StoreRead(db, last.bucket, last.key) = [err |-> NoErr, val |-> Bytes(<<>>)]

\* C4: a successful Write to a key that is already in the bucket replaces its
\* value: the bucket keeps the same keys, the key occurs once among them, and
\* a Read made right after returns the new value.
C4_Overwrite ==
    (/\ pc = "returned"
     /\ last.op = "Write"
     /\ last.err = NoErr
     /\ HasBucket(pre, last.bucket)
     /\ last.key \in DOMAIN pre[last.bucket])
        => /\ DOMAIN db[last.bucket] = DOMAIN pre[last.bucket]
           /\ Occurrences(StoreAllKeys(db, last.bucket).keys, last.key) = 1
           /\ StoreRead(db, last.bucket, last.key)
                = [err |-> NoErr, val |-> Bytes(last.value.bytes)]

\* a key holding a non-empty value was overwritten with another value
C4_Witness ==
    /\ pc = "returned"
    /\ last.op = "Write"
    /\ last.err = NoErr
    /\ HasBucket(pre, last.bucket)
    /\ last.key \in DOMAIN pre[last.bucket]
    /\ pre[last.bucket][last.key] = <<1>>
    /\ last.value = Bytes(<<>>)
    /\ db[last.bucket][last.key] = <<>>

\* C5: Read of a key that is not in an existing bucket returns a nil value
\* and no error.
C5_MissingKeyNoError ==
    (/\ pc = "returned"
     /\ last.op = "Read"
     /\ HasBucket(pre, last.bucket)
     /\ last.key \notin DOMAIN pre[last.bucket])
        => (last.err = NoErr /\ last.val.bytes = <<>>)

\* C6: in a resume chain no key comes back in more than one page.
C6_NoKeyTwice == ~chain.dup

\* C7: when a call of a resume chain with count >= 1 returns the empty next
\* key, the pages returned so far hold every key of the bucket.
C7_NoKeySkipped ==
    (chain.done /\ bt.count >= 1)
        => chain.covered = DOMAIN db[ScanBucket]

\* a chain over more entries than one page holds has come to its end
C7_Witness ==
    /\ chain.done
    /\ bt.count >= 2
    /\ Cardinality(DOMAIN db[ScanBucket]) > bt.count + 1
    /\ chain.covered = DOMAIN db[ScanBucket]

\* C8: a resume chain with count >= 1 eventually gets the empty next key.
C8_ChainTerminates == (bt.count >= 1) ~> chain.done

\* C9: WalkPrefix on an existing bucket calls fn for exactly the entries whose
\* key starts with the prefix, each with its stored value, each once, in
\* ascending byte order.
C9_WalkPrefixExact ==
    (/\ pc = "returned"
     /\ last.op = "WalkPrefix"
     /\ last.err = NoErr)
        => LET b == pre[last.bucket]
               v == last.visited
           IN /\ VisitedKeys(v) = {k \in DOMAIN b : HasPrefix(k, last.key)}
              /\ \A i \in 1..Len(v) : v[i][2] = Bytes(b[v[i][1]])
              /\ \A i, j \in 1..Len(v) : i < j => LexLess(v[i][1], v[j][1])

\* prefix 1 over keys 1, 11, 12, 2: 12 is visited before the walk stops at 2
C9_Witness ==
    /\ pc = "returned"
    /\ last.op = "WalkPrefix"
    /\ last.err = NoErr
    /\ last.key = <<1>>
    /\ DOMAIN pre[last.bucket] = {<<1>>, <<1, 1>>, <<1, 2>>, <<2>>}
    /\ last.visited = << <<<<1>>, Bytes(<<1>>)>>,
                         <<<<1, 1>>, Bytes(<<1, 1>>)>>,
                         <<<<1, 2>>, Bytes(<<1, 2>>)>> >>

\* C10: AllKeys on an existing bucket returns every key of the bucket, each
\* exactly once, whatever writes, overwrites and deletes built the bucket.
C10_AllKeysExact ==
    (/\ pc = "returned"
     /\ last.op = "AllKeys"
     /\ last.err = NoErr)
        => LET b == pre[last.bucket]
           IN /\ {last.keys[i] : i \in 1..Len(last.keys)} = DOMAIN b
              /\ \A k \in DOMAIN b : Occurrences(last.keys, k) = 1

\* AllKeys over a bucket of four keys
C10_Witness ==
    /\ pc = "returned"
    /\ last.op = "AllKeys"
    /\ last.err = NoErr
    /\ Len(last.keys) = 4
    /\ DOMAIN pre[last.bucket] = {<<2>>, <<1, 2>>, <<2, 1>>, <<1>>}

\* C11: FindKeys on an existing bucket returns exactly the keys that contain
\* the needle, each once, and no other key.
C11_FindKeysExact ==
    (/\ pc = "returned"
     /\ last.op = "FindKeys"
     /\ last.err = NoErr)
        => LET b == pre[last.bucket]
           IN \A k \in StoredKeys \cup DOMAIN b :
                Occurrences(last.keys, k)
                    = IF k \in DOMAIN b /\ Contains(k, last.key) THEN 1 ELSE 0

\* C12: CreateBucket of a name that is not there succeeds and adds an empty
\* bucket; CreateBucket of a bucket that is there succeeds and changes nothing;
\* no other bucket changes. Only the empty name, which the engine refuses,
\* fails, and then nothing changes.
C12_CreateBucketIdempotent ==
    (pc = "returned" /\ last.op = "CreateBucket")
        => IF last.bucket = <<>>
           THEN last.err = ErrBucketNotCreated /\ db = pre
           ELSE /\ last.err = NoErr
                /\ DOMAIN db = DOMAIN pre \cup {last.bucket}
                /\ \A n \in DOMAIN pre : db[n] = pre[n]
                /\ ~HasBucket(pre, last.bucket) => db[last.bucket] = EmptyMap
                /\ StoreCreateBucket(db, last.bucket)
                        = [err |-> NoErr, db |-> db]

\* CreateBucket of a bucket that holds entries
C12_Witness ==
    /\ pc = "returned"
    /\ last.op = "CreateBucket"
    /\ last.err = NoErr
    /\ HasBucket(pre, last.bucket)
    /\ DOMAIN pre[last.bucket] # {}
    /\ db = pre

\* C13: DeleteBucket of a name that is not there returns an error and changes
\* nothing; DeleteBucket of a bucket that is there returns no error.
C13_DeleteBucketStrict ==
    (pc = "returned" /\ last.op = "DeleteBucket")
        => IF HasBucket(pre, last.bucket)
           THEN last.err = NoErr
           ELSE last.err = ErrBucketDeleteFailed /\ db = pre

\* DeleteBucket of a missing name while another bucket holds entries
C13_Witness ==
    /\ pc = "returned"
    /\ last.op = "DeleteBucket"
    /\ last.bucket = <<2>>
    /\ last.err = ErrBucketDeleteFailed
    /\ DOMAIN pre = {<<1>>}
    /\ DOMAIN pre[<<1>>] # {}

\* C14: a successful DeleteBucket removes the bucket with all its entries: the
\* bucket is gone, and a CreateBucket made right after gives an empty bucket
\* in which AllKeys finds nothing and no old key can be read.
C14_DeleteBucketRemovesEntries ==
    (/\ pc = "returned"
     /\ last.op = "DeleteBucket"
     /\ last.err = NoErr)
        => /\ ~HasBucket(db, last.bucket)
           /\ \A n \in DOMAIN db : db[n] = pre[n]
           /\ LET c == StoreCreateBucket(db, last.bucket)
              IN /\ c.err = NoErr
                 /\ StoreAllKeys(c.db, last.bucket)
                        = [err |-> NoErr, keys |-> <<>>]
                 /\ \A k \in DOMAIN pre[last.bucket] :
                        StoreRead(c.db, last.bucket, k).val = NilBytes

\* a bucket holding two entries was deleted
C14_Witness ==
    /\ pc = "returned"
    /\ last.op = "DeleteBucket"
    /\ last.err = NoErr
    /\ Cardinality(DOMAIN pre[last.bucket]) = 2
    /\ ~HasBucket(db, last.bucket)

\* C15: Delete on an existing bucket succeeds whether or not the key is
\* there; it removes that entry and no other, so deleting an absent key
\* changes nothing and deleting again changes nothing.
C15_DeleteIdempotent ==
    (/\ pc = "returned"
     /\ last.op = "Delete"
     /\ HasBucket(pre, last.bucket))
        => /\ last.err = NoErr
           /\ DOMAIN db = DOMAIN pre
           /\ \A n \in DOMAIN pre : n # last.bucket => db[n] = pre[n]
           /\ DOMAIN db[last.bucket] = DOMAIN pre[last.bucket] \ {last.key}
           /\ \A k \in DOMAIN db[last.bucket] :
                db[last.bucket][k] = pre[last.bucket][k]
           /\ last.key \notin DOMAIN pre[last.bucket] => db = pre
           /\ StoreDelete(db, last.bucket, last.key)
                = [err |-> NoErr, db |-> db]

\* Delete of a key that is not in a bucket that holds another key
C15_Witness ==
    /\ pc = "returned"
    /\ last.op = "Delete"
    /\ last.err = NoErr
    /\ HasBucket(pre, last.bucket)
    /\ last.key # <<>>
    /\ last.key \notin DOMAIN pre[last.bucket]
    /\ DOMAIN pre[last.bucket] # {}
    /\ db = pre

\* C17: when CreateBucket, DeleteBucket, Write or Delete returns an error, the
\* database is what it was before the call.
C17_NoPartialMutation ==
    (/\ pc = "returned"
     /\ last.op \in {"CreateBucket", "DeleteBucket", "Write", "Delete"}
     /\ last.err # NoErr)
        => db = pre

\* a Write with the empty key was refused by the engine in a bucket with entries
C17_Witness ==
    /\ pc = "returned"
    /\ last.op = "Write"
    /\ last.err = ErrWriteFailed
    /\ DOMAIN pre[last.bucket] # {}
    /\ db = pre

\* the next key returned is the greatest key of the returned page
NextIsLastOfPage ==
    /\ last.next \in DOMAIN last.items
    /\ \A k \in DOMAIN last.items : k = last.next \/ LexLess(k, last.next)

\* C20 as stated: after a successful ReadBatch, a page of exactly count entries
\* comes with its greatest key as the next key, and a page of fewer than count
\* entries comes with the empty next key, whatever the resume key was.
C20_ResumeKeyRuleAnyCount ==
    (/\ pc = "returned"
     /\ last.op = "ReadBatchTuple"
     /\ last.err = NoErr)
        => /\ Cardinality(DOMAIN last.items) = last.count => NextIsLastOfPage
           /\ Cardinality(DOMAIN last.items) < last.count => last.next = <<>>

\* C20: after a successful ReadBatch with count >= 1, a page of exactly count
\* entries comes with its greatest key as the next key, and a page of fewer
\* than count entries comes with the empty next key, whatever the resume key
\* was; with count = 0 the page is empty and the next key is the resume key
\* that was passed in.
C20_ResumeKeyRule ==
    (/\ pc = "returned"
     /\ last.op = "ReadBatchTuple"
     /\ last.err = NoErr)
        => /\ Cardinality(DOMAIN last.items) <= last.count
           /\ last.count >= 1 =>
                /\ Cardinality(DOMAIN last.items) = last.count
                        => NextIsLastOfPage
                /\ Cardinality(DOMAIN last.items) < last.count
                        => last.next = <<>>
           /\ last.count = 0 => last.items = EmptyMap /\ last.next = last.key

\* a short page read from a resume key that is not empty
C20_Witness ==
    /\ pc = "returned"
    /\ last.op = "ReadBatchTuple"
    /\ last.err = NoErr
    /\ last.count = 2
    /\ last.key # <<>>
    /\ Cardinality(DOMAIN last.items) = 1
    /\ last.next = <<>>

\* C18: NewStore returns the can-not-open error only after every open attempt
\* of its schedule failed, and that error carries the error of the last failed
\* attempt.
C18_ErrorWrapsLastOpenError ==
    (ns.pc = "done" /\ ns.retErr # NoErr)
        => /\ ns.attempts = 10
           /\ ns.openErr # NoErr
           /\ ns.retWraps = ns.openErr

\* C19: NewStore makes at most 10 open attempts, returns the handle at the
\* first attempt that succeeds and makes no attempt after it, returns an error
\* and no handle when all attempts failed, and always returns.
C19_NewStoreTerminates ==
    /\ [](/\ ns.attempts <= 10
          /\ ns.attempts = Len(ns.timeouts)
          /\ ns.pc = "done" =>
                IF ns.openErr = NoErr
                THEN ns.retStore /\ ns.handle /\ ns.retErr = NoErr
                ELSE /\ ~ns.retStore
                     /\ ns.retErr = ErrCanNotOpen
                     /\ ns.attempts = 10)
    /\ [][ns.pc = "done" => ns' = ns]_vars
    /\ <>(ns.pc = "done")

\* the handle was returned by the third attempt after two failed ones
C19_Witness ==
    /\ ns.pc = "done"
    /\ ns.retStore
    /\ ns.attempts = 3
    /\ ns.tries = 5

\* the entries of a ReadBatch page in the order the cursor stored them
PageSeq(items) ==
    LET ks == SortedSeq(DOMAIN items)
    IN [i \in 1..Len(ks) |-> <<ks[i], items[ks[i]]>>]

\* what the traversal t returns when it runs alone on the database d
TraversalOf(d, t) ==
    IF t.op = "Walk"
    THEN [err |-> NoErr, visited |-> StoreWalk(d).visited, next |-> <<>>]
    ELSE IF t.op = "WalkBucket"
    THEN LET r == StoreWalkBucket(d, t.bucket)
         IN [err |-> r.err, visited |-> r.visited, next |-> <<>>]
    ELSE IF t.op = "WalkPrefix"
    THEN LET r == StoreWalkPrefix(d, t.bucket, t.arg)
         IN [err |-> r.err, visited |-> r.visited, next |-> <<>>]
    ELSE LET r == StoreReadBatchTuple(d, t.bucket, t.arg, t.count)
         IN [err |-> r.err, visited |-> PageSeq(r.items), next |-> r.next]

\* C16: a Walk, WalkBucket, WalkPrefix or ReadBatch call that runs while other
\* threads commit Write, Delete, CreateBucket and DeleteBucket calls visits
\* the entries of the database as committed when its read transaction began:
\* at every step what it has visited is the beginning of the traversal of that
\* state, and at its return it is the whole of it.
C16_SnapshotIsolation ==
    tx.active
        => LET r == TraversalOf(tx.snap, tx)
           IN /\ Len(tx.visited) <= Len(r.visited)
              /\ tx.visited = SubSeq(r.visited, 1, Len(tx.visited))
              /\ tx.done => /\ tx.visited = r.visited
                            /\ tx.err = r.err
                            /\ tx.next = r.next

\* a traversal returned entries that other threads changed or removed while
\* it was part way through
C16_Witness ==
    /\ tx.active
    /\ tx.done
    /\ tx.raced
    /\ tx.err = NoErr
    /\ Len(tx.visited) = 2
    /\ TraversalOf(db, tx).visited # tx.visited

\* C21 as stated: a successful ReadBatch returns the first min(count, m) of
\* the m entries whose key is >= the resume key, in ascending key order, each
\* with its stored value, never more than count entries, and the entry at the
\* resume key, when there is one, is in the page.
C21_PageContentAnyCount ==
    (/\ pc = "returned"
     /\ last.op = "ReadBatchTuple"
     /\ last.err = NoErr)
        => LET b == pre[last.bucket]
               cand == {k \in DOMAIN b : ~LexLess(k, last.key)}
               n == IF last.count < Cardinality(cand) THEN last.count
                    ELSE Cardinality(cand)
           IN /\ DOMAIN last.items =
                    {k \in cand :
                        Cardinality({j \in cand : LexLess(j, k)}) < n}
              /\ \A k \in DOMAIN last.items : last.items[k] = Bytes(b[k])
              /\ Cardinality(DOMAIN last.items) <= last.count
              /\ last.key \in DOMAIN b => last.key \in DOMAIN last.items

\* C21: a successful ReadBatch returns the first min(count, m) of the m
\* entries whose key is >= the resume key, in ascending key order, each with
\* its stored value, never more than count entries; when count >= 1 the entry
\* at the resume key, when there is one, is in the page.
C21_PageContent ==
    (/\ pc = "returned"
     /\ last.op = "ReadBatchTuple"
     /\ last.err = NoErr)
        => LET b == pre[last.bucket]
               cand == {k \in DOMAIN b : ~LexLess(k, last.key)}
               n == IF last.count < Cardinality(cand) THEN last.count
                    ELSE Cardinality(cand)
           IN /\ DOMAIN last.items =
                    {k \in cand :
                        Cardinality({j \in cand : LexLess(j, k)}) < n}
              /\ \A k \in DOMAIN last.items : last.items[k] = Bytes(b[k])
              /\ Cardinality(DOMAIN last.items) <= last.count
              /\ (last.key \in DOMAIN b /\ last.count >= 1)
                    => last.key \in DOMAIN last.items

\* a page of one entry read from a resume key that is stored, with a smaller
\* key before it and a greater key cut off by count
C21_Witness ==
    /\ pc = "returned"
    /\ last.op = "ReadBatchTuple"
    /\ last.err = NoErr
    /\ last.count = 1
    /\ last.key \in DOMAIN pre[last.bucket]
    /\ DOMAIN last.items = {last.key}
    /\ \E j, k \in DOMAIN pre[last.bucket] :
            LexLess(j, last.key) /\ LexLess(last.key, k)

\* C24: a successful Write or Delete changes only the entry of its bucket and
\* key: every other key of the bucket and every other bucket stay as they
\* were; a successful CreateBucket or DeleteBucket leaves the entries of every
\* other bucket as they were.
C24_MutationFrame ==
    (/\ pc = "returned"
     /\ last.op \in {"Write", "Delete", "CreateBucket", "DeleteBucket"}
     /\ last.err = NoErr)
        => /\ \A n \in (DOMAIN pre \cup DOMAIN db) \ {last.bucket} :
                /\ n \in DOMAIN pre
                /\ n \in DOMAIN db
                /\ db[n] = pre[n]
           /\ last.op \in {"Write", "Delete"} =>
                /\ last.bucket \in DOMAIN pre
                /\ last.bucket \in DOMAIN db
                /\ \A k \in (DOMAIN pre[last.bucket]
                                \cup DOMAIN db[last.bucket]) \ {last.key} :
                        /\ k \in DOMAIN pre[last.bucket]
                        /\ k \in DOMAIN db[last.bucket]
                        /\ db[last.bucket][k] = pre[last.bucket][k]

\* a Write changed the value of one key of a bucket that holds another key,
\* while another bucket holds an entry too
C24_Witness ==
    /\ pc = "returned"
    /\ last.op = "Write"
    /\ last.err = NoErr
    /\ last.key \in DOMAIN pre[last.bucket]
    /\ db[last.bucket][last.key] # pre[last.bucket][last.key]
    /\ Cardinality(DOMAIN pre[last.bucket]) = 2
    /\ \E n \in DOMAIN pre : n # last.bucket /\ DOMAIN pre[n] # {}

\* C22: every operation is one engine transaction, so a reader never sees the
\* middle of one: while an existing key is updated (by Write, or by Update of
\* the older API) a Read of that key by another thread returns the old value
\* or the new value and never finds the key missing.
C22_UpdateAtomic ==
    /\ upd.pc = "returned" => upd.txns = 1
    /\ (upd.observed /\ ~upd.old.isnil)
            => /\ upd.seen.err = NoErr
               /\ upd.seen.val \in {upd.old, Bytes(upd.value.bytes)}

\* C23: Walk, WalkBucket, WalkPrefix, ReadBatch, AllKeys and FindKeys each run
\* in one read-only transaction and leave the bucket set and every entry as
\* they were, whether they succeed or fail.
C23_TraversalsReadOnly ==
    (/\ pc = "returned"
     /\ last.op \in {"Walk", "WalkBucket", "WalkPrefix", "ReadBatchTuple",
                     "AllKeys", "FindKeys"})
        => /\ last.txn = "View"
           /\ db = pre

\* C25 as stated: when ReadBatch fails on a missing bucket no stale page is
\* exposed: the tuple variant returns a nil map and the empty next key, and
\* the batch of the struct variant does not hold the previous page's items and
\* next key any more.
C25_NoStalePage ==
    (chain.failed /\ last.err = ErrBucketNotExist)
        => /\ bt.next = <<>>
           /\ DOMAIN bt.items = {}
           /\ chain.variant = "tuple" => bt.itemsNil

\* C25: when ReadBatch fails on a missing bucket, the tuple variant returns a
\* nil map and the empty next key, and the struct variant leaves the batch as
\* it was, so its items and next key are still those of the previous page.
C25_ErrorPage ==
    [][(chain'.odd # chain.odd /\ last'.err = ErrBucketNotExist)
            => IF last'.op = "ReadBatchTuple"
               THEN /\ last'.itemsNil
                    /\ last'.items = EmptyMap
                    /\ last'.next = <<>>
               ELSE bt' = bt]_vars

\* the struct variant failed after a page of two entries: the batch still
\* holds that page and its next key
C25_Witness ==
    /\ chain.failed
    /\ chain.variant = "batch"
    /\ last.op = "ReadBatch"
    /\ last.err = ErrBucketNotExist
    /\ last.key # <<>>
    /\ Cardinality(DOMAIN bt.items) = 2
    /\ bt.next = last.key

\* C26: when Write and Delete calls are made between the calls of a resume
\* chain with count >= 2, every key stored from the first call until the call
\* that returns the empty next key is in some page, also when the resume key
\* at hand was deleted between two calls.
C26_NoSurvivorSkipped ==
    (chain.done /\ ~chain.failed /\ bt.count >= 2)
        => chain.alive \subseteq chain.covered

\* a chain came to its end after its resume key was deleted between two
\* calls, with two keys stored throughout
C26_Witness ==
    /\ chain.done
    /\ ~chain.failed
    /\ chain.cut
    /\ bt.count = 2
    /\ Cardinality(chain.alive) = 2
    /\ chain.alive \subseteq chain.covered

\* C27: the file Backup writes is the database as committed when its read
\* transaction began, also when other threads commit meanwhile; Backup leaves
\* the database unchanged; a destination that cannot be created gives the
\* backup-file error; and the destination file, once created, is closed on
\* every path by which Backup returns.
C27_BackupSnapshot ==
    /\ [](/\ \A n \in DOMAIN bk.content :
                n \in DOMAIN bk.snap /\ bk.content[n] = bk.snap[n]
          /\ bk.open => bk.created
          /\ bk.pc = "returned" =>
                /\ ~bk.open
                /\ bk.created = bk.destOk
                /\ ~bk.destOk => bk.err = ErrBackupFile
                /\ bk.destOk => bk.err \in {NoErr, ErrBackupWrite}
                /\ bk.err = NoErr => bk.content = bk.snap)
    /\ [][BackupStep => db' = db]_vars

\* a backup returned the database of its start although entries were written
\* to two buckets of it meanwhile
C27_Witness ==
    /\ bk.pc = "returned"
    /\ bk.err = NoErr
    /\ ~bk.open
    /\ bk.content = bk.snap
    /\ DOMAIN bk.snap = {ScanBucket, OtherBucket}
    /\ DOMAIN bk.snap[ScanBucket] # {}
    /\ HasBucket(db, ScanBucket)
    /\ db[ScanBucket] # bk.snap[ScanBucket]

\* C28: in the kv program, when NewStore returned an error no Store method
\* (CreateBucket, Write, Read, Delete, DeleteBucket, Backup, Close or any
\* other) is called on the handle afterwards.
C28_NoCallAfterFailedOpen ==
    (ns.pc = "done" /\ ns.retErr # NoErr) => kv.calls = <<>>

\* C29 as stated: the timeout of each open attempt of NewStore is exactly
\* twice that of the attempt before, and the timeouts are strictly increasing.
C29_TimeoutsDouble ==
    \A i \in 2..Len(ns.timeouts) :
        /\ ns.timeouts[i] = 2 * ns.timeouts[i - 1]
        /\ ns.timeouts[i] > ns.timeouts[i - 1]

\* C29: the timeout of the first open attempt of NewStore is 2 ms, the
\* timeout of each later attempt is exactly four times that of the attempt
\* before, and the timeouts are strictly increasing.
C29_TimeoutsQuadruple ==
    /\ Len(ns.timeouts) <= 10
    /\ Len(ns.timeouts) >= 1 => ns.timeouts[1] = 2
    /\ \A i \in 2..Len(ns.timeouts) :
            /\ ns.timeouts[i] = 4 * ns.timeouts[i - 1]
            /\ ns.timeouts[i] > ns.timeouts[i - 1]

\* all ten attempts were made, the last with a timeout of 2^19 ms
C29_Witness ==
    /\ ns.pc = "done"
    /\ Len(ns.timeouts) = 10
    /\ ns.timeouts[10] = 524288

====
